---- MODULE Spec2Model ----
(***************************************************************************)
(* Model of src/rust/src/main.rs: a one-shot pipeline that provisions the  *)
(* wallets "Trader" and "Miner" on a Bitcoin Core regtest node, funds the  *)
(* Miner, sends 20 BTC to the Trader from one pinned unspent output,       *)
(* confirms the transfer in one block, attributes the outputs to the       *)
(* wallets and writes ten lines to ../out.txt.                             *)
(*                                                                         *)
(* The program is sequential: pc is main's position, one action per        *)
(* statement (or helper call) of main.  The node is the environment: each  *)
(* RPC reply is drawn from the replies the node can give in its current    *)
(* state.  `?` returns Err from main (status "err"); unwrap / assert! /    *)
(* indexing failures panic (status "panic").  Node state (the wallets)     *)
(* survives a run; Restart starts the program again on the same node.      *)
(*                                                                         *)
(* Amounts are integers of satoshi.  Option<T> is a sequence of length 0   *)
(* or 1.  A transaction id is its hex string as the node prints it, a      *)
(* sequence of bytes; the Txid type holds the bytes in reverse order.      *)
(***************************************************************************)
EXTENDS Integers, Sequences, FiniteSets, TLC

VARIABLES
    pc,             \* position in main
    status,         \* "running", "ok" (main returned Ok), "err" (main returned Err), "panic"
    wallets,        \* node: wallet name -> "absent" | "unloaded" | "loaded"
    log,            \* RPC commands issued in this run, in order: [cmd, w (wallet endpoint), arg, res]
    unspent,        \* main.rs:115  Vec<ListUnspentResultEntry>
    viable,         \* main.rs:116  index into unspent (a reference in the source), 0 before
    pinned,         \* arguments of the send command, <<>> until it is issued
    nodeTx,         \* node: the transaction the send command built, <<>> if none
    txhash,         \* main.rs:126  Option of the String returned by send
    txid_transfer,  \* main.rs:136  Option<Txid>
    fee,            \* main.rs:138  Option<SignedAmount>
    mined,          \* main.rs:141  Vec<BlockHash>
    block,          \* main.rs:144  Option<Block>
    confirmed_tx,   \* main.rs:147  index into block.txdata, 0 before
    output_spent,   \* main.rs:157  Option<TxOut>
    trader_out,     \* main.rs:162  index into confirmed_tx.output, 0 before
    miner_change,   \* main.rs:171  index into confirmed_tx.output, 0 before
    fileCreated,    \* File::create succeeded in this run
    report,         \* the lines of ../out.txt written in this run
    wfailed         \* the report lines whose writeln! returned Err in this run

vars == <<pc, status, wallets, log, unspent, viable, pinned, nodeTx, txhash,
          txid_transfer, fee, mined, block, confirmed_tx, output_spent,
          trader_out, miner_change, fileCreated, report, wfailed>>

----------------------------------------------------------------------------
(* Bounds of the model *)

\* longest list the node returns from listunspent
MaxUnspent == 2
\* most writeln! calls that fail in one run
MaxWriteFailures == 1

(* Program constants *)

\* satoshi per bitcoin: Amount::to_btc, Amount::from_int_btc
COIN == 100000000
\* the threshold of main.rs:116, in BTC
MinBtc == 20
\* the amount of main.rs:129, in BTC
SendBtc == 20
\* blocks mined to fund the Miner, main.rs:112
FundBlocks == 101
\* blocks mined to confirm, main.rs:141
ConfirmBlocks == 1
\* lines of the report, main.rs:181-190
ReportLines == 10

Wallets == {"Trader", "Miner"}

----------------------------------------------------------------------------
(* Library conversions *)

Reverse(s) == [i \in 1..Len(s) |-> s[Len(s) + 1 - i]]

\* Txid::from_str (main.rs:136): hex string -> Txid; the hex form is byte-reversed
TxidFromStr(hex) == Reverse(hex)

\* Display of a Txid (main.rs:130, 181): Txid -> hex string
TxidToString(t) == Reverse(t)

\* Amount::to_btc (main.rs:116, 159, 168, 177): the f64 that is the decimal
\* whole.frac of the satoshi count (exact below 2^53 satoshi)
to_btc(sat) == [whole |-> sat \div COIN, frac |-> sat % COIN]

\* Amount::from_int_btc (main.rs:129)
from_int_btc(n) == n * COIN

\* script_to_addr (main.rs:53-55)
script_to_addr(script) == <<"addr", script>>

\* the closure with >= in place of >: an output of exactly 20 BTC qualifies
ExceedsMin_AtLeast(u) == to_btc(u.amount).whole >= MinBtc

\* the closure of main.rs:116: u.amount.to_btc() > 20.0
ExceedsMin(u) ==
    LET b == to_btc(u.amount) IN b.whole > MinBtc \/ (b.whole = MinBtc /\ b.frac > 0)

\* Iterator::find (main.rs:116, 150, 165, 174) over the values the closure
\* takes on the elements: index of the first TRUE, 0 for None
FindFirst(hits) ==
    IF \E i \in 1..Len(hits) : hits[i]
    THEN CHOOSE i \in 1..Len(hits) : hits[i] /\ \A j \in 1..(i - 1) : ~hits[j]
    ELSE 0

----------------------------------------------------------------------------
(* The node: what it can answer *)

\* hex ids of the funding transactions, one per unspent output
SrcTxHex(i) == <<i, 0>>
\* hex id of the transaction built by send, of an unrelated transaction whose
\* hex is the byte-reversal of it, and of the coinbase of the confirming block
TransferHex == <<3, 4>>
OtherHex == <<4, 3>>
CoinbaseHex == <<5, 5>>

\* amounts of unspent outputs the node may list
Amounts == {20 * COIN, 20 * COIN + 141, 21 * COIN}
\* fees the node's default policy may charge
Fees == {141, 2000}

\* listunspent replies (main.rs:115): entry i is output (i-1)%2 of its own transaction
UnspentEntry(i, a) == [txid |-> TxidFromStr(SrcTxHex(i)), vout |-> (i - 1) % 2, amount |-> a]
UnspentLists ==
    UNION {{[i \in 1..n |-> UnspentEntry(i, f[i])] : f \in [1..n -> Amounts]} : n \in 0..MaxUnspent}

\* loadwallet replies (main.rs:75) by the wallet's state on the node
LoadWalletReplies(st) ==
    CASE st = "absent"   -> {"Path does not exist", "other error"}
      [] st = "unloaded" -> {"ok", "other error"}
      [] st = "loaded"   -> {"already loaded", "other error"}

\* createwallet replies (main.rs:82)
CreateWalletReplies(st) == IF st = "absent" THEN {"ok", "other error"} ELSE {"other error"}

\* the outputs of the transfer: one recipient output of amt, and the change,
\* if any is left, at either position (main.rs:34-47)
TransferOutputs(u, amt, f) ==
    LET rcpt == [value |-> amt, script_pubkey |-> "spkTrader"]
        chg  == [value |-> u.amount - amt - f, script_pubkey |-> "spkChange"]
    IN  IF chg.value = 0 THEN {<<rcpt>>} ELSE {<<rcpt, chg>>, <<chg, rcpt>>}

\* the transactions the node can build for send from the single input u:
\* inputs = outputs + fee
SendTxs(u, amt) ==
    UNION {{[txid |-> TransferHex, fee |-> f, output |-> outs] :
                outs \in TransferOutputs(u, amt, f)} :
           f \in {g \in Fees : g <= u.amount - amt}}

\* send replies (main.rs:47): an error, or a result object for a transaction
\* the node built: complete=true with its txid once it is signed and broadcast,
\* complete=false (more signatures needed) with or without a txid field
SendReplies(u, amt) ==
    {[kind |-> "error", complete |-> FALSE, txid |-> <<>>, tx |-> <<>>]}
    \cup {[kind |-> "result", complete |-> TRUE, txid |-> <<t.txid>>, tx |-> <<t>>] :
            t \in SendTxs(u, amt)}
    \cup {[kind |-> "result", complete |-> FALSE, txid |-> id, tx |-> <<>>] :
            id \in {<<>>, <<TransferHex>>}}

\* gettransaction replies (main.rs:137): the wallet knows only a broadcast
\* transaction; its fee field is optional
GetTransactionReplies(ntx) ==
    IF ntx = <<>> THEN {"other error"} ELSE {"other error", "no fee", "fee"}

\* a transaction as deserialized from a block: txid() is the Txid of its hex id
BlockTx(hex, outs) == [txid |-> TxidFromStr(hex), output |-> outs]
CoinbaseTx == BlockTx(CoinbaseHex, <<[value |-> 25 * (COIN \div 2), script_pubkey |-> "spkMiner"]>>)
OtherTx == BlockTx(OtherHex, <<[value |-> COIN, script_pubkey |-> "spkOther"]>>)

\* transaction lists of the confirming block (main.rs:144): the coinbase first;
\* the transfer normally follows, possibly after another transaction
BlockTxLists(ntx) ==
    LET T == BlockTx(ntx.txid, ntx.output)
    IN  {<<CoinbaseTx>>, <<CoinbaseTx, OtherTx>>, <<CoinbaseTx, T>>, <<CoinbaseTx, OtherTx, T>>}

\* getrawtransaction of the funding transaction (main.rs:154): the listed
\* output sits at index vout, next to a zero-value commitment output
SourceTx(u) ==
    LET paid == [value |-> u.amount, script_pubkey |-> "spkFunding"]
        zero == [value |-> 0, script_pubkey |-> "spkCommitment"]
    IN  [txid |-> u.txid, output |-> IF u.vout = 0 THEN <<paid, zero>> ELSE <<zero, paid>>]

\* getaddressinfo answers for the outputs of one search (main.rs:58-61):
\* ismine true, ismine false, or a failed call / absent field
OwnershipAnswers(n) == [1..n -> {"mine", "not mine", "fails"}]

----------------------------------------------------------------------------
(* The program *)

Init ==
    /\ pc = "connect"
    /\ status = "running"
    /\ wallets \in [Wallets -> {"absent", "unloaded"}]
    /\ log = <<>>
    /\ unspent = <<>>
    /\ viable = 0
    /\ pinned = <<>>
    /\ nodeTx = <<>>
    /\ txhash = <<>>
    /\ txid_transfer = <<>>
    /\ fee = <<>>
    /\ mined = <<>>
    /\ block = <<>>
    /\ confirmed_tx = 0
    /\ output_spent = <<>>
    /\ trader_out = 0
    /\ miner_change = 0
    /\ fileCreated = FALSE
    /\ report = <<>>
    /\ wfailed = {}

Call(cmd, w, arg, res) == [cmd |-> cmd, w |-> w, arg |-> arg, res |-> res]

\* main returns Err (the ? operator) or panics: the run is over
Stop(kind) == pc' = "done" /\ status' = kind
Goto(next) == pc' = next /\ status' = status

fileVars == <<fileCreated, report, wfailed>>
attrVars == <<confirmed_tx, output_spent, trader_out, miner_change>>
confVars == <<txhash, txid_transfer, fee, mined, block>>
fundVars == <<unspent, viable, pinned>>

\* a call whose reply the program only tests for failure
SimpleCall(cmd, w, arg, next) ==
    /\ \E r \in {"ok", "other error"} :
        /\ log' = Append(log, Call(cmd, w, arg, r))
        /\ IF r = "ok" THEN Goto(next) ELSE Stop("err")
    /\ UNCHANGED <<wallets, nodeTx, fundVars, confVars, attrVars, fileVars>>

\* main.rs:91-98
Connect ==
    /\ pc = "connect"
    /\ SimpleCall("getblockchaininfo", "", <<>>, "load_trader")

\* the error arm without its guard: any failed load creates the wallet
ShouldCreate_AnyError(loaded) == loaded # "ok"

\* main.rs:79-80: the error arm that creates the wallet
ShouldCreate(loaded) == loaded = "Path does not exist"

\* main.rs:74-87
load_or_create_wallet(name, next) ==
    \E lr \in LoadWalletReplies(wallets[name]) :
        LET ld == Call("loadwallet", "", <<name>>, lr) IN
        IF lr = "ok"
        THEN /\ wallets' = [wallets EXCEPT ![name] = "loaded"]
             /\ log' = Append(log, ld)
             /\ Goto(next)
        ELSE IF ShouldCreate(lr)
        THEN \E cr \in CreateWalletReplies(wallets[name]) :
                /\ log' = log \o <<ld, Call("createwallet", "", <<name>>, cr)>>
                /\ IF cr = "ok"
                   THEN wallets' = [wallets EXCEPT ![name] = "loaded"] /\ Goto(next)
                   ELSE UNCHANGED wallets /\ Stop("err")
        ELSE /\ log' = Append(log, ld)
             /\ UNCHANGED wallets
             /\ Stop("err")

\* main.rs:101
LoadTrader ==
    /\ pc = "load_trader"
    /\ load_or_create_wallet("Trader", "load_miner")
    /\ UNCHANGED <<nodeTx, fundVars, confVars, attrVars, fileVars>>

\* main.rs:102
LoadMiner ==
    /\ pc = "load_miner"
    /\ load_or_create_wallet("Miner", "miner_address")
    /\ UNCHANGED <<nodeTx, fundVars, confVars, attrVars, fileVars>>

\* main.rs:108-111
MinerAddress ==
    /\ pc = "miner_address"
    /\ SimpleCall("getnewaddress", "Miner", <<>>, "fund")

\* main.rs:112
Fund ==
    /\ pc = "fund"
    /\ SimpleCall("generatetoaddress", "Miner", <<FundBlocks>>, "list_unspent")

\* main.rs:115
ListUnspent ==
    /\ pc = "list_unspent"
    /\ \/ /\ log' = Append(log, Call("listunspent", "Miner", <<>>, "other error"))
          /\ Stop("err")
          /\ UNCHANGED unspent
       \/ \E l \in UnspentLists :
          /\ log' = Append(log, Call("listunspent", "Miner", <<>>, "ok"))
          /\ unspent' = l
          /\ Goto("select")
    /\ UNCHANGED <<wallets, nodeTx, viable, pinned, confVars, attrVars, fileVars>>

\* main.rs:116
SelectViable ==
    /\ pc = "select"
    /\ viable' = FindFirst([i \in 1..Len(unspent) |-> ExceedsMin(unspent[i])])
    /\ IF viable' = 0 THEN Stop("panic") ELSE Goto("trader_address")
    /\ UNCHANGED <<wallets, nodeTx, log, unspent, pinned, confVars, attrVars, fileVars>>

\* main.rs:119-122
TraderAddress ==
    /\ pc = "trader_address"
    /\ SimpleCall("getnewaddress", "Trader", <<>>, "send")

\* send without the assert! of main.rs:48
send_Unasserted(reply) ==
    IF reply.kind = "error" \/ reply.txid = <<>> THEN [status |-> "err", txid |-> <<>>]
    ELSE [status |-> "ok", txid |-> reply.txid]

\* send, main.rs:47-49: the outcome of the call for a reply of the node.
\* An error reply, or a result that does not deserialize into SendResult
\* (no txid field), leaves through `?`; assert! panics on complete=false.
send(reply) ==
    IF reply.kind = "error" \/ reply.txid = <<>> THEN [status |-> "err", txid |-> <<>>]
    ELSE IF ~reply.complete THEN [status |-> "panic", txid |-> <<>>]
    ELSE [status |-> "ok", txid |-> reply.txid]

\* what the log keeps of a send reply
SendRes(reply) ==
    IF reply.kind = "error" THEN "other error"
    ELSE IF reply.complete THEN "complete" ELSE "incomplete"

\* main.rs:126-132 with send, main.rs:27-50
Send ==
    /\ pc = "send"
    /\ LET u    == unspent[viable]
           amt  == from_int_btc(SendBtc)
           args == [addr |-> "addrTrader", amt |-> amt,
                    txid |-> TxidToString(u.txid), vout |-> u.vout]
       IN  /\ pinned' = <<args>>
           /\ \E r \in SendReplies(u, amt) :
                /\ log' = Append(log, Call("send", "Miner", <<>>, SendRes(r)))
                /\ nodeTx' = r.tx
                /\ txhash' = send(r).txid
                /\ IF send(r).status = "ok" THEN Goto("get_fee") ELSE Stop(send(r).status)
    /\ UNCHANGED <<wallets, unspent, viable, txid_transfer, fee, mined, block,
                   attrVars, fileVars>>

\* unwrap_or_default in place of unwrap: a missing fee does not stop main
AfterGetTransaction_DefaultFee(r) ==
    CASE r \in {"fee", "no fee"} -> "confirm"
      [] OTHER -> "err"

\* main.rs:137-138: where main goes on a gettransaction reply: `?` on an
\* error, unwrap on the optional fee
AfterGetTransaction(r) ==
    CASE r = "fee" -> "confirm"
      [] r = "no fee" -> "panic"
      [] OTHER -> "err"

\* main.rs:136-138; the wallet reports the fee it paid as a negative amount
GetFee ==
    /\ pc = "get_fee"
    /\ txid_transfer' = <<TxidFromStr(txhash[1])>>
    /\ \E r \in GetTransactionReplies(nodeTx) :
        /\ log' = Append(log, Call("gettransaction", "Miner", <<>>, r))
        /\ fee' = IF r = "fee" THEN <<-nodeTx[1].fee>> ELSE <<>>
        /\ IF AfterGetTransaction(r) = "confirm"
           THEN Goto("confirm")
           ELSE Stop(AfterGetTransaction(r))
    /\ UNCHANGED <<wallets, nodeTx, fundVars, txhash, mined, block, attrVars, fileVars>>

\* main.rs:141
MineConfirm ==
    /\ pc = "confirm"
    /\ \E r \in {"ok", "other error"} :
        /\ log' = Append(log, Call("generatetoaddress", "Miner", <<ConfirmBlocks>>, r))
        /\ IF r = "ok"
           THEN mined' = [i \in 1..ConfirmBlocks |-> <<"blockhash", i>>] /\ Goto("get_block")
           ELSE UNCHANGED mined /\ Stop("err")
    /\ UNCHANGED <<wallets, nodeTx, fundVars, txhash, txid_transfer, fee, block,
                   attrVars, fileVars>>

\* main.rs:144
GetBlock ==
    /\ pc = "get_block"
    /\ \/ /\ log' = Append(log, Call("getblock", "Miner", <<mined[1]>>, "other error"))
          /\ UNCHANGED block
          /\ Stop("err")
       \/ \E txs \in BlockTxLists(nodeTx[1]) :
          /\ log' = Append(log, Call("getblock", "Miner", <<mined[1]>>, "ok"))
          /\ block' = <<[hash |-> mined[1], txdata |-> txs]>>
          /\ Goto("find_tx")
    /\ UNCHANGED <<wallets, nodeTx, fundVars, txhash, txid_transfer, fee, mined,
                   attrVars, fileVars>>

\* a closure that takes the first transaction that is not the coinbase
IsTransfer_NotCoinbase(tx) == tx.txid # CoinbaseTx.txid

\* the closure of main.rs:150
IsTransfer(tx) == tx.txid = txid_transfer[1]

\* main.rs:147-151
FindConfirmed ==
    /\ pc = "find_tx"
    /\ confirmed_tx' = FindFirst([i \in 1..Len(block[1].txdata) |-> IsTransfer(block[1].txdata[i])])
    /\ IF confirmed_tx' = 0 THEN Stop("panic") ELSE Goto("input_tx")
    /\ UNCHANGED <<wallets, nodeTx, log, fundVars, confVars, output_spent, trader_out,
                   miner_change, fileVars>>

\* main.rs:157: input_tx.output.get(viable.vout as usize)
OutputSpent(input_tx, vout) ==
    IF vout + 1 \in 1..Len(input_tx.output) THEN <<input_tx.output[vout + 1]>> ELSE <<>>

\* main.rs:154-159
GetInputTx ==
    /\ pc = "input_tx"
    /\ \/ /\ log' = Append(log, Call("getrawtransaction", "Miner", <<>>, "other error"))
          /\ UNCHANGED output_spent
          /\ Stop("err")
       \/ /\ log' = Append(log, Call("getrawtransaction", "Miner", <<>>, "ok"))
          /\ output_spent' = OutputSpent(SourceTx(unspent[viable]), unspent[viable].vout)
          /\ IF output_spent' = <<>> THEN Stop("panic") ELSE Goto("trader_out")
    /\ UNCHANGED <<wallets, nodeTx, fundVars, confVars, confirmed_tx, trader_out,
                   miner_change, fileVars>>

\* Iterator::find with is_mine as the predicate (main.rs:165, 174): the scan
\* stops at the first output reported mine; an answer that fails before that
\* panics inside is_mine.  -1: panic in is_mine, 0: None.
FindMine(ans) ==
    LET i == FindFirst([k \in 1..Len(ans) |-> ans[k] # "not mine"])
    IN  IF i = 0 THEN 0 ELSE IF ans[i] = "fails" THEN -1 ELSE i

ConfirmedOutputs == block[1].txdata[confirmed_tx].output

\* main.rs:162-168
FindTraderOut ==
    /\ pc = "trader_out"
    /\ \E ans \in OwnershipAnswers(Len(ConfirmedOutputs)) :
        IF FindMine(ans) <= 0
        THEN UNCHANGED trader_out /\ Stop("panic")
        ELSE trader_out' = FindMine(ans) /\ Goto("miner_change")
    /\ UNCHANGED <<wallets, nodeTx, log, fundVars, confVars, confirmed_tx, output_spent,
                   miner_change, fileVars>>

\* main.rs:171-177
FindMinerChange ==
    /\ pc = "miner_change"
    /\ \E ans \in OwnershipAnswers(Len(ConfirmedOutputs)) :
        IF FindMine(ans) <= 0
        THEN UNCHANGED miner_change /\ Stop("panic")
        ELSE miner_change' = FindMine(ans) /\ Goto("create_file")
    /\ UNCHANGED <<wallets, nodeTx, log, fundVars, confVars, confirmed_tx, output_spent,
                   trader_out, fileVars>>

\* main.rs:180
CreateFile ==
    /\ pc = "create_file"
    /\ \/ fileCreated' = TRUE /\ Goto("write")
       \/ UNCHANGED fileCreated /\ Stop("panic")
    /\ UNCHANGED <<wallets, nodeTx, log, fundVars, confVars, attrVars, report, wfailed>>

\* the value formatted by the k-th writeln! (main.rs:181-190); height is the
\* Option that bip34_block_height().unwrap() takes apart
ReportLine(k, height) ==
    LET tx == block[1].txdata[confirmed_tx] IN
    CASE k = 1 -> TxidToString(tx.txid)
      [] k = 2 -> script_to_addr(output_spent[1].script_pubkey)
      [] k = 3 -> to_btc(output_spent[1].value)
      [] k = 4 -> script_to_addr(tx.output[trader_out].script_pubkey)
      [] k = 5 -> to_btc(tx.output[trader_out].value)
      [] k = 6 -> script_to_addr(tx.output[miner_change].script_pubkey)
      [] k = 7 -> to_btc(tx.output[miner_change].value)
      [] k = 8 -> fee[1]
      [] k = 9 -> height[1]
      [] k = 10 -> block[1].hash

\* the line the next writeln! writes
NextLine == Len(report) + Cardinality(wfailed) + 1

\* main.rs:181-190, one writeln! per step; its Result is dropped
WriteLine ==
    /\ pc = "write"
    /\ \E height \in {<<>>, <<FundBlocks + ConfirmBlocks>>} :
        IF NextLine = 9 /\ height = <<>>
        THEN UNCHANGED <<report, wfailed>> /\ Stop("panic")
        ELSE /\ \/ report' = Append(report, [line |-> NextLine, text |-> ReportLine(NextLine, height)])
                   /\ UNCHANGED wfailed
                \/ /\ Cardinality(wfailed) < MaxWriteFailures
                   /\ wfailed' = wfailed \cup {NextLine}
                   /\ UNCHANGED report
             /\ IF NextLine = ReportLines THEN Goto("return") ELSE Goto("write")
    /\ UNCHANGED <<wallets, nodeTx, log, fundVars, confVars, attrVars, fileCreated>>

\* main.rs:194
ReturnOk ==
    /\ pc = "return"
    /\ pc' = "done"
    /\ status' = "ok"
    /\ UNCHANGED <<wallets, nodeTx, log, fundVars, confVars, attrVars, fileVars>>

\* main.rs:89: the program is run again on the same node; the node keeps its wallets
Restart ==
    /\ pc = "done"
    /\ pc' = "connect"
    /\ status' = "running"
    /\ log' = <<>>
    /\ unspent' = <<>>
    /\ viable' = 0
    /\ pinned' = <<>>
    /\ nodeTx' = <<>>
    /\ txhash' = <<>>
    /\ txid_transfer' = <<>>
    /\ fee' = <<>>
    /\ mined' = <<>>
    /\ block' = <<>>
    /\ confirmed_tx' = 0
    /\ output_spent' = <<>>
    /\ trader_out' = 0
    /\ miner_change' = 0
    /\ fileCreated' = FALSE
    /\ report' = <<>>
    /\ wfailed' = {}
    /\ UNCHANGED wallets

Next ==
    \/ Connect \/ LoadTrader \/ LoadMiner \/ MinerAddress \/ Fund \/ ListUnspent
    \/ SelectViable \/ TraderAddress \/ Send \/ GetFee \/ MineConfirm \/ GetBlock
    \/ FindConfirmed \/ GetInputTx \/ FindTraderOut \/ FindMinerChange \/ CreateFile
    \/ WriteLine \/ ReturnOk \/ Restart

Spec == Init /\ [][Next]_vars

----------------------------------------------------------------------------
(* Vocabulary of the properties *)

\* the positions in log of the calls of a command
LogIdx(cmd) == {i \in 1..Len(log) : log[i].cmd = cmd}

\* the k-th writeln! reached the file; what it wrote
Written(k) == \E i \in 1..Len(report) : report[i].line = k
Text(k) == (CHOOSE l \in {report[i] : i \in 1..Len(report)} : l.line = k).text

\* satoshi of a printed BTC amount; absolute value
Sat(b) == b.whole * COIN + b.frac
Abs(x) == IF x < 0 THEN -x ELSE x

\* main got to File::create (main.rs:180) or beyond in this run
ReachedWriter == pc \in {"create_file", "write", "return"} \/ fileCreated

NoReport == ~fileCreated /\ report = <<>>

----------------------------------------------------------------------------
(* C1 *)

\* C1: in every run that reaches the report writer, the output selected as
\* the trader receipt and the output selected as the miner change are two
\* distinct output indices of the same confirmed transaction, whatever the
\* node answers about ownership.
C1_DistinctOutputs ==
    ReachedWriter =>
        /\ trader_out \in 1..Len(ConfirmedOutputs)
        /\ miner_change \in 1..Len(ConfirmedOutputs)
        /\ trader_out # miner_change

----------------------------------------------------------------------------
(* C2 *)

\* C2: wallet provisioning is idempotent: load_or_create_wallet on a wallet
\* the node already has loaded (the node answers "already loaded") does not
\* abort the run and does not create the wallet again.
C2_AlreadyLoadedTolerated ==
    \A i \in LogIdx("loadwallet") :
        log[i].res = "already loaded" =>
            /\ ~(i = Len(log) /\ status = "err")
            /\ (i < Len(log) => log[i + 1].cmd # "createwallet")

----------------------------------------------------------------------------
(* C3 *)

ProvisioningFailed(i) ==
    \/ log[i].cmd = "loadwallet" /\ log[i].res \notin {"ok", "Path does not exist"}
    \/ log[i].cmd = "createwallet" /\ log[i].res # "ok"

----------------------------------------------------------------------------
(* C4 *)

\* the entries of the listing whose amount is more than 20 BTC, in satoshi
Above20 == {i \in 1..Len(unspent) : unspent[i].amount > 20 * COIN}

\* C4: when send is issued, its pinned (txid, vout) is the first listed
\* unspent output of more than 20 BTC (exactly 20 never qualifies); when the
\* listing holds none, the run ends before send and creates no report.
C4_PinnedIsFirstAbove20 ==
    /\ pinned # <<>> =>
        /\ Above20 # {}
        /\ \A j \in Above20 : viable <= j
        /\ viable \in Above20
        /\ pinned[1].txid = SrcTxHex(viable)
        /\ pinned[1].vout = unspent[viable].vout
    /\ (LogIdx("listunspent") # {} /\ Above20 = {} /\ pc # "select") =>
        /\ pc = "done" /\ status \in {"err", "panic"}
        /\ pinned = <<>> /\ LogIdx("send") = {}
        /\ NoReport

\* send was issued with the second entry pinned: the first is exactly 20 BTC
C4_Witness ==
    /\ pinned # <<>>
    /\ unspent[1].amount = 20 * COIN
    /\ viable = 2

----------------------------------------------------------------------------
(* C5 *)

\* C5: a send answered complete=false is a failure: no transaction id is
\* returned, the run stops with no fee lookup, no confirmation block and no
\* report; a transaction id is returned only on complete=true.
C5_IncompleteSendFails ==
    /\ \A i \in LogIdx("send") :
        log[i].res = "incomplete" =>
            /\ txhash = <<>>
            /\ i = Len(log)
            /\ pc = "done" /\ status \in {"err", "panic"}
            /\ mined = <<>> /\ fee = <<>>
            /\ NoReport
    /\ txhash # <<>> => \E i \in LogIdx("send") : log[i].res = "complete"

\* the node answered complete=false with a txid and the assertion stopped the run
C5_Witness ==
    /\ Len(log) > 0
    /\ log[Len(log)].cmd = "send" /\ log[Len(log)].res = "incomplete"
    /\ status = "panic"

----------------------------------------------------------------------------
(* C6 *)

\* the block holds the transaction whose hex id is the one send returned
InBlock == \E i \in 1..Len(block[1].txdata) : block[1].txdata[i] = BlockTx(txhash[1], nodeTx[1].output)

\* C6: when line 1 of the report is written, the transaction taken as
\* confirmed is in the transaction list of the one block mined after send,
\* it is the transaction send built, and line 1 is the id send returned; a
\* block without that transaction ends the run with no report file.
C6_TxidRoundTrip ==
    /\ Written(1) =>
        /\ Len(mined) = 1 /\ block[1].hash = mined[1]
        /\ confirmed_tx \in 1..Len(block[1].txdata)
        /\ block[1].txdata[confirmed_tx] = BlockTx(nodeTx[1].txid, nodeTx[1].output)
        /\ Text(1) = txhash[1]
    /\ (block # <<>> /\ ~InBlock /\ pc # "find_tx") =>
        /\ pc = "done" /\ status = "panic"
        /\ NoReport

\* line 1 is written for a transfer found behind another transaction of the block
C6_Witness ==
    /\ Written(1)
    /\ confirmed_tx = 3

----------------------------------------------------------------------------
(* C7 *)

\* C7: amount conservation: in a run that writes the amounts and the fee,
\* miner input (line 3) = trader output (line 5) + miner change (line 7)
\* + |fee| (line 8), exactly, in satoshi.
C7_AmountConservation ==
    (Written(3) /\ Written(5) /\ Written(7) /\ Written(8)) =>
        Sat(Text(3)) - Sat(Text(5)) = Sat(Text(7)) + Abs(Text(8))

\* the same equation whenever the two searches selected different outputs
C7_ConservationWhenDistinct ==
    (Written(3) /\ Written(5) /\ Written(7) /\ Written(8) /\ trader_out # miner_change) =>
        Sat(Text(3)) - Sat(Text(5)) = Sat(Text(7)) + Abs(Text(8))

----------------------------------------------------------------------------
(* C8 *)

\* C8: a failed write of any of the ten report lines is fatal: a run that
\* ends in success (main returns Ok) has written all ten lines, in order.
C8_WriteFailureFatal ==
    status = "ok" =>
        /\ wfailed = {}
        /\ Len(report) = ReportLines
        /\ \A k \in 1..ReportLines : report[k].line = k

----------------------------------------------------------------------------
(* C9 *)

\* C9: a confirmed transaction with fewer than two outputs never leads to a
\* written report, and its single output is never taken both as the trader
\* receipt and as the miner change, whatever the node answers about ownership.
C9_FewerThanTwoOutputsFails ==
    (confirmed_tx # 0 /\ Len(ConfirmedOutputs) < 2) =>
        /\ NoReport
        /\ ~(trader_out # 0 /\ trader_out = miner_change)

----------------------------------------------------------------------------
(* C10 *)

\* the calls of generatetoaddress issued after send
MinedAfterSend == {i \in LogIdx("generatetoaddress") : \E s \in LogIdx("send") : s < i}

\* C10: gettransaction is called after send returned and before the
\* confirmation block is mined; a failed lookup or a missing fee ends the run
\* before that block is mined; exactly one block is mined between send and
\* the fetch of the block.
C10_FeeBeforeConfirmation ==
    /\ \A g \in LogIdx("gettransaction") :
        /\ \E s \in LogIdx("send") : s < g /\ log[s].res = "complete"
        /\ \A m \in MinedAfterSend : g < m
        /\ log[g].res # "fee" =>
            /\ g = Len(log) /\ pc = "done" /\ status \in {"err", "panic"}
            /\ MinedAfterSend = {} /\ mined = <<>>
    /\ \A m \in MinedAfterSend :
        \E g \in LogIdx("gettransaction") : g < m /\ log[g].res = "fee" /\ fee # <<>>
    /\ \A b \in LogIdx("getblock") :
        /\ Cardinality(MinedAfterSend) = 1
        /\ \A m \in MinedAfterSend : m < b /\ log[m].arg = <<1>> /\ log[m].res = "ok"
        /\ Len(mined) = 1

\* the block was fetched after the fee was read and one block was mined
C10_Witness ==
    /\ LogIdx("getblock") # {}
    /\ fee # <<>>
    /\ block # <<>>

====
